---- MODULE Spec2Model ----
(***************************************************************************)
(* retriever: the chunked, indexed Storage of src/src/types/storage.rs.     *)
(*                                                                         *)
(* A Storage value is the record [id, chunks, dirty, index] of the struct. *)
(* Positions are 0-based as in the source; chunks[idx] of the source is    *)
(* st.chunks[idx + 1] here.  Every method is an operator from a Storage    *)
(* value (and arguments) to [st, ret, panic]: the Storage afterwards, the  *)
(* returned value and the panic message ("" when the call returns).        *)
(* Option is a sequence: None is << >> and Some(x) is << x >>.             *)
(***************************************************************************)
EXTENDS Integers, Sequences, FiniteSets, TLC

VARIABLES storage, last, panic, ID_COUNTER, instances, nadds, secondary,
          gc_chunk_list, gc_data, threads

vars == <<storage, last, panic, ID_COUNTER, instances, nadds, secondary,
          gc_chunk_list, gc_data, threads>>

(***************************** bounds ***************************************)
NumChunkKeys == 2
NumItemKeys == 1
NumValues == 2
MaxGroup == 2
MaxList == 2
MaxInstances == 5
MaxAdds == 3
NumThreads == 4

ChunkKeys == 1..NumChunkKeys
ItemKeys == 1..NumItemKeys
Values == 1..NumValues

\* Element = (ChunkKey, ItemKey, R), the built-in triple record.
Elements == ChunkKeys \X ItemKeys \X Values

\* Record for (ChunkKey, ItemKey, R): the keys are the first two components.
chunk_key(element) == element[1]

item_key(element) == element[2]

\* Id: a bare identity (chunk key, item key), itself a Record.
Ids == ChunkKeys \X ItemKeys

None == << >>

Some(x) == << x >>

(************************* maps (HashMap) ***********************************)
EmptyMap == [k \in {} |-> 0]

Put(m, k, v) == [x \in (DOMAIN m) \cup {k} |-> IF x = k THEN v ELSE m[x]]

Del(m, k) == [x \in (DOMAIN m) \ {k} |-> m[x]]

SeqsUpTo(S, n) == UNION {[1..m -> S] : m \in 0..n}

RECURSIVE Flatten(_)
Flatten(ss) == IF ss = << >> THEN << >> ELSE Head(ss) \o Flatten(Tail(ss))

Range(f) == {f[x] : x \in DOMAIN f}

\* Vec::swap_remove / RVec::swap_remove: the last element takes the place of
\* the removed one.  idx is 0-based and in bounds.
swap_remove(seq, idx) ==
    LET n == Len(seq) IN
    IF idx + 1 = n THEN SubSeq(seq, 1, n - 1)
    ELSE [i \in 1..(n - 1) |-> IF i = idx + 1 THEN seq[n] ELSE seq[i]]

\* slice::sort_unstable on positions: ascending order.
RECURSIVE sort_unstable(_)
sort_unstable(seq) ==
    IF seq = << >> THEN << >>
    ELSE LET m == CHOOSE x \in Range(seq) : \A y \in Range(seq) : x <= y
             i == CHOOSE j \in 1..Len(seq) : seq[j] = m
         IN <<m>> \o sort_unstable(SubSeq(seq, 1, i - 1) \o SubSeq(seq, i + 1, Len(seq)))

rev(seq) == [i \in 1..Len(seq) |-> seq[Len(seq) + 1 - i]]

\* The elements of a set of positions, as an ascending sequence.
RECURSIVE Ascending(_)
Ascending(S) ==
    IF S = {} THEN << >>
    ELSE LET m == CHOOSE x \in S : \A y \in S : x <= y
         IN <<m>> \o Ascending(S \ {m})

(***************************** queries **************************************)
\* Everything, Chunks(list), Id(chunk key, item key) and filter(inner, pred);
\* the predicate of a filter is "the value is v".
Everything == [kind |-> "Everything", keys |-> << >>, id |-> << >>, v |-> 0]

Chunks(list) == [kind |-> "Chunks", keys |-> list, id |-> << >>, v |-> 0]

Id(ck, ik) == [kind |-> "Id", keys |-> << >>, id |-> <<ck, ik>>, v |-> 0]

Filter(q, v) == [q EXCEPT !.v = v]

BaseQueries ==
    {Everything} \cup {Chunks(l) : l \in SeqsUpTo(ChunkKeys, MaxList)}
                 \cup {Id(i[1], i[2]) : i \in Ids}

Queries == BaseQueries \cup {Filter(q, v) : q \in {Everything}, v \in Values}

\* Whether the query selects this element within its chunk.
Selects(q, element) ==
    /\ q.kind = "Id" => item_key(element) = q.id[2]
    /\ q.v # 0 => element[3] = q.v

(*************************** ChunkStorage ***********************************)
\* One chunk: its key, its records and the item-key -> position index.
CS_new(ck) == [chunk_key |-> ck, data |-> << >>, index |-> EmptyMap]

CS_is_empty(c) == c.data = << >>

CS_len(c) == Len(c.data)

\* insert, overwriting any record with the same item key
CS_add(c, element) ==
    LET ik == item_key(element) IN
    IF ik \in DOMAIN c.index
    THEN [c EXCEPT !.data[c.index[ik] + 1] = element]
    ELSE [c EXCEPT !.data = Append(@, element),
                   !.index = Put(@, ik, Len(c.data))]

\* bulk add; every record must carry the chunk's own key
RECURSIVE CS_extend(_, _)
CS_extend(c, group) ==
    IF group = << >> THEN [c |-> c, panic |-> ""]
    ELSE IF chunk_key(Head(group)) # c.chunk_key
         THEN [c |-> c, panic |-> "chunk key mismatch"]
         ELSE CS_extend(CS_add(c, Head(group)), Tail(group))

CS_get(c, unique_id) ==
    IF item_key(unique_id) \in DOMAIN c.index
    THEN Some(c.data[c.index[item_key(unique_id)] + 1])
    ELSE None

\* the item positions a query selects in this chunk, ascending
CS_item_idxs(c, q) ==
    Ascending({p \in 0..(Len(c.data) - 1) : Selects(q, c.data[p + 1])})

CS_query(c, q) ==
    LET ps == CS_item_idxs(c, q) IN [i \in 1..Len(ps) |-> c.data[ps[i] + 1]]

\* swap-to-end removal of one position, re-indexing the displaced item
CS_remove_at(c, p) ==
    LET gone == c.data[p + 1]
        data == swap_remove(c.data, p)
        idx1 == Del(c.index, item_key(gone))
    IN [c EXCEPT !.data = data,
                 !.index = IF p < Len(data)
                           THEN Put(idx1, item_key(data[p + 1]), p)
                           ELSE idx1]

\* remove the selected positions, highest first; removed holds them in the
\* order they are handed to the callback
RECURSIVE CS_remove_all(_, _)
CS_remove_all(c, ps) ==
    IF ps = << >> THEN [c |-> c, removed |-> << >>]
    ELSE LET r == CS_remove_all(CS_remove_at(c, Head(ps)), Tail(ps))
         IN [c |-> r.c, removed |-> <<c.data[Head(ps) + 1]>> \o r.removed]

CS_remove(c, q) == CS_remove_all(c, rev(CS_item_idxs(c, q)))

\* the callback of modify: it reads through the Editor (w = 0) or takes
\* get_mut() and sets the value to w
CS_modify(c, q, w) ==
    LET ps == CS_item_idxs(c, q) IN
    [c |-> [c EXCEPT !.data = [i \in 1..Len(c.data) |->
                IF w # 0 /\ Selects(q, c.data[i])
                THEN <<c.data[i][1], c.data[i][2], w>> ELSE c.data[i]]],
     visited |-> [i \in 1..Len(ps) |-> c.data[ps[i] + 1]]]

CS_validate(c) ==
    /\ DOMAIN c.index = {item_key(c.data[i]) : i \in 1..Len(c.data)}
    /\ \A ik \in DOMAIN c.index :
          /\ c.index[ik] < Len(c.data)
          /\ item_key(c.data[c.index[ik] + 1]) = ik
    /\ Cardinality(DOMAIN c.index) = Len(c.data)

(****************************** Storage *************************************)
OutOfBounds == "index out of bounds"

\* A plain load in place of the read-modify-write: the counter is read and
\* left as it was.
fetch_add_LoadOnly(counter, val) == [ret |-> counter, counter |-> counter]

\* AtomicU64::fetch_add(val, Relaxed): one atomic read-modify-write; returns
\* the previous value.
fetch_add(counter, val) == [ret |-> counter, counter |-> counter + val]

\* Storage::new: ID_COUNTER.fetch_add(1) returns the counter's value and
\* increments it (a u64: MaxInstances keeps it far from wrapping).
new(counter) ==
    [st |-> [id |-> counter, chunks |-> << >>, dirty |-> << >>, index |-> EmptyMap],
     counter |-> counter + 1]

\* impl Default for Storage
default(counter) == new(counter)

\* #[derive(Clone)]: a field-by-field copy.
clone(st) ==
    [id |-> st.id, chunks |-> st.chunks, dirty |-> st.dirty, index |-> st.index]

id(st) == st.id

internal_idx_of(st, ck) ==
    IF ck \in DOMAIN st.index THEN Some(st.index[ck]) ELSE None

\* A dirty() that records nothing.
dirty_Dropped(st, idx) == st

dirty(st, idx) == [st EXCEPT !.dirty = Append(@, idx)]

\* A chunk() that never consults the index: every call pushes a new chunk.
chunk_AlwaysNew(st, ck, mark) ==
    LET idx == Len(st.chunks)
        st1 == [st EXCEPT !.index = Put(@, ck, idx),
                          !.chunks = Append(@, CS_new(ck))]
        st2 == IF mark THEN dirty(st1, idx) ELSE st1
    IN [st |-> st2, idx |-> idx, panic |-> ""]

\* Storage::chunk: the position of the chunk of this key, created when the
\* index does not know the key; &mut self.chunks[idx] panics out of bounds.
chunk(st, ck, mark) ==
    LET found == internal_idx_of(st, ck)
        idx == IF found # None THEN found[1] ELSE Len(st.chunks)
        st1 == IF found # None THEN st
               ELSE [st EXCEPT !.index = Put(@, ck, idx),
                               !.chunks = Append(@, CS_new(ck))]
        st2 == IF mark THEN dirty(st1, idx) ELSE st1
    IN [st |-> st2, idx |-> idx,
        panic |-> IF idx < Len(st2.chunks) THEN "" ELSE OutOfBounds]

\* A compaction loop that does not re-index the chunk landing in the vacated
\* slot.
RECURSIVE clean_loop_NoReindex(_, _)
clean_loop_NoReindex(st, idxs) ==
    IF idxs = << >> THEN [st |-> st, panic |-> ""]
    ELSE LET idx == Head(idxs) IN
         IF idx >= Len(st.chunks) THEN [st |-> st, panic |-> OutOfBounds]
         ELSE IF ~CS_is_empty(st.chunks[idx + 1])
              THEN clean_loop_NoReindex(st, Tail(idxs))
              ELSE clean_loop_NoReindex(
                       [st EXCEPT !.index = Del(@, st.chunks[idx + 1].chunk_key),
                                  !.chunks = swap_remove(@, idx)],
                       Tail(idxs))

\* The loop of Storage::clean over the sorted queue, highest position first.
RECURSIVE clean_loop(_, _)
clean_loop(st, idxs) ==
    IF idxs = << >> THEN [st |-> st, panic |-> ""]
    ELSE LET idx == Head(idxs) IN
         IF idx >= Len(st.chunks) THEN [st |-> st, panic |-> OutOfBounds]
         ELSE IF ~CS_is_empty(st.chunks[idx + 1]) THEN clean_loop(st, Tail(idxs))
         ELSE LET index1 == Del(st.index, st.chunks[idx + 1].chunk_key)
                  chunks1 == swap_remove(st.chunks, idx)
                  index2 == IF Len(chunks1) > idx
                            THEN Put(index1, chunks1[idx + 1].chunk_key, idx)
                            ELSE index1
              IN clean_loop([st EXCEPT !.index = index2, !.chunks = chunks1],
                            Tail(idxs))

clean(st) ==
    IF st.dirty = << >> THEN [st |-> st, panic |-> ""]
    ELSE LET sorted == sort_unstable(st.dirty)
             r == clean_loop([st EXCEPT !.dirty = sorted], rev(sorted))
         IN IF r.panic # "" THEN r
            ELSE [st |-> [r.st EXCEPT !.dirty = << >>], panic |-> ""]

add(st, element) ==
    LET c == clean(st) IN
    IF c.panic # "" THEN [st |-> c.st, ret |-> None, panic |-> c.panic]
    ELSE LET r == chunk(c.st, chunk_key(element), FALSE) IN
         IF r.panic # "" THEN [st |-> r.st, ret |-> None, panic |-> r.panic]
         ELSE [st |-> [r.st EXCEPT !.chunks[r.idx + 1] = CS_add(@, element)],
               ret |-> None, panic |-> ""]

add_chunk(st, i) ==
    LET c == clean(st) IN
    IF c.panic # "" THEN [st |-> c.st, ret |-> None, panic |-> c.panic]
    ELSE IF i = << >> THEN [st |-> c.st, ret |-> None, panic |-> ""]
    ELSE LET r == chunk(c.st, chunk_key(Head(i)), FALSE) IN
         IF r.panic # "" THEN [st |-> r.st, ret |-> None, panic |-> r.panic]
         ELSE LET x == CS_extend(r.st.chunks[r.idx + 1], i) IN
              [st |-> [r.st EXCEPT !.chunks[r.idx + 1] = x.c],
               ret |-> None, panic |-> x.panic]

RECURSIVE add_chunks_loop(_, _)
add_chunks_loop(st, ii) ==
    IF ii = << >> THEN [st |-> st, ret |-> None, panic |-> ""]
    ELSE LET r == add_chunk(st, Head(ii)) IN
         IF r.panic # "" THEN r ELSE add_chunks_loop(r.st, Tail(ii))

add_chunks(st, ii) ==
    LET c == clean(st) IN
    IF c.panic # "" THEN [st |-> c.st, ret |-> None, panic |-> c.panic]
    ELSE add_chunks_loop(c.st, ii)

\* consumes the Storage: the chunks' records, one sequence per chunk
dissolve(st) == [i \in 1..Len(st.chunks) |-> st.chunks[i].data]

raw(st) == [i \in 1..Len(st.chunks) |-> st.chunks[i].data]

get(st, unique_id) ==
    LET found == internal_idx_of(st, chunk_key(unique_id)) IN
    IF found = None THEN [st |-> st, ret |-> None, panic |-> ""]
    ELSE IF found[1] >= Len(st.chunks)
         THEN [st |-> st, ret |-> None, panic |-> OutOfBounds]
         ELSE [st |-> st, ret |-> CS_get(st.chunks[found[1] + 1], unique_id),
               panic |-> ""]

\* Storage::entry: compaction, then the chunk of the key, queued as dirty.
\* A variant of entry that resolves the chunk without queueing it.
entry_NoMark(st, unique_id) ==
    LET c == clean(st) IN
    IF c.panic # "" THEN [st |-> c.st, idx |-> 0, panic |-> c.panic]
    ELSE chunk(c.st, chunk_key(unique_id), FALSE)

entry(st, unique_id) ==
    LET c == clean(st) IN
    IF c.panic # "" THEN [st |-> c.st, idx |-> 0, panic |-> c.panic]
    ELSE chunk(c.st, chunk_key(unique_id), TRUE)

iter(st) == Flatten(raw(st))

\* Query::chunk_idxs: the chunk positions a query selects, ascending.
chunk_idxs(q, st) ==
    Ascending(
        CASE q.kind = "Everything" -> 0..(Len(st.chunks) - 1)
          [] q.kind = "Chunks" ->
                 {st.index[q.keys[i]] :
                     i \in {j \in 1..Len(q.keys) : q.keys[j] \in DOMAIN st.index}}
          [] q.kind = "Id" ->
                 IF q.id[1] \in DOMAIN st.index THEN {st.index[q.id[1]]} ELSE {})

RECURSIVE query_loop(_, _, _, _)
query_loop(st, idxs, q, seen) ==
    IF idxs = << >> THEN [st |-> st, ret |-> seen, panic |-> ""]
    ELSE IF Head(idxs) >= Len(st.chunks)
         THEN [st |-> st, ret |-> seen, panic |-> OutOfBounds]
         ELSE query_loop(st, Tail(idxs), q,
                         seen \o CS_query(st.chunks[Head(idxs) + 1], q))

query(st, q) == query_loop(st, chunk_idxs(q, st), q, << >>)

RECURSIVE modify_loop(_, _, _, _, _)
modify_loop(st, idxs, q, w, visited) ==
    IF idxs = << >> THEN [st |-> st, ret |-> visited, panic |-> ""]
    ELSE LET idx == Head(idxs) IN
         IF idx >= Len(st.chunks)
         THEN [st |-> st, ret |-> visited, panic |-> OutOfBounds]
         ELSE LET r == CS_modify(st.chunks[idx + 1], q, w) IN
              modify_loop([st EXCEPT !.chunks[idx + 1] = r.c], Tail(idxs), q, w,
                          visited \o r.visited)

\* ret: the records the callback was invoked on, in order
modify(st, q, w) ==
    LET c == clean(st) IN
    IF c.panic # "" THEN [st |-> c.st, ret |-> << >>, panic |-> c.panic]
    ELSE modify_loop(c.st, chunk_idxs(q, c.st), q, w, << >>)

RECURSIVE remove_loop(_, _, _, _)
remove_loop(st, idxs, q, removed) ==
    IF idxs = << >> THEN [st |-> st, ret |-> removed, panic |-> ""]
    ELSE LET idx == Head(idxs)
             st1 == dirty(st, idx)
         IN IF idx >= Len(st1.chunks)
            THEN [st |-> st1, ret |-> removed, panic |-> OutOfBounds]
            ELSE LET r == CS_remove(st1.chunks[idx + 1], q) IN
                 remove_loop([st1 EXCEPT !.chunks[idx + 1] = r.c], Tail(idxs), q,
                             removed \o r.removed)

\* ret: the records handed to the callback, in order
remove(st, q) ==
    LET r == remove_loop(st, chunk_idxs(q, st), q, << >>) IN
    IF r.panic # "" THEN r
    ELSE LET c == clean(r.st) IN [st |-> c.st, ret |-> r.ret, panic |-> c.panic]

chunk_keys(st) == [i \in 1..Len(st.chunks) |-> st.chunks[i].chunk_key]

remove_chunk(st, ck) ==
    LET c == clean(st) IN
    IF c.panic # "" THEN [st |-> c.st, ret |-> None, panic |-> c.panic]
    ELSE IF ck \notin DOMAIN c.st.index
         THEN [st |-> c.st, ret |-> None, panic |-> ""]
         ELSE LET idx == c.st.index[ck]
                  st1 == [c.st EXCEPT !.index = Del(@, ck)]
              IN IF idx >= Len(st1.chunks)
                 THEN [st |-> st1, ret |-> None, panic |-> OutOfBounds]
                 ELSE [st |-> [st1 EXCEPT !.chunks = swap_remove(@, idx)],
                       ret |-> Some(st1.chunks[idx + 1].data), panic |-> ""]

\* The assertions of Storage::validate, after its compaction.
validate_checks(st) ==
    IF \E idx \in 0..(Len(st.chunks) - 1) :
           internal_idx_of(st, st.chunks[idx + 1].chunk_key) # Some(idx)
    THEN "chunk not indexed"
    ELSE IF \E k \in DOMAIN st.index : st.index[k] >= Len(st.chunks)
    THEN OutOfBounds
    ELSE IF \E k \in DOMAIN st.index : st.chunks[st.index[k] + 1].chunk_key # k
    THEN "index broken"
    ELSE IF \E k \in DOMAIN st.index : CS_len(st.chunks[st.index[k] + 1]) = 0
    THEN "empty chunk"
    ELSE IF \E i \in 1..Len(st.chunks) : ~CS_validate(st.chunks[i])
    THEN "chunk storage broken"
    ELSE ""

validate(st) ==
    LET c == clean(st) IN
    IF c.panic # "" THEN [st |-> c.st, ret |-> None, panic |-> c.panic]
    ELSE [st |-> c.st, ret |-> None, panic |-> validate_checks(c.st)]

(******************************* Entry **************************************)
\* What the caller does with the handle of entry(unique_id) on chunk idx:
\* get(), get_mut() then a write of value w, and_modify(set w),
\* or_insert_with(|| (chunk key, item key, w)).
EntryUses == {"get", "get_mut", "and_modify", "or_insert_with"}

Entry_use(st, idx, unique_id, use, w) ==
    LET c == st.chunks[idx + 1]
        cur == CS_get(c, unique_id)
        made == <<chunk_key(unique_id), item_key(unique_id), w>>
    IN IF use = "get" THEN [st |-> st, ret |-> cur, panic |-> ""]
       ELSE IF cur # None
            THEN IF use = "or_insert_with"
                 THEN [st |-> st, ret |-> cur, panic |-> ""]
                 ELSE LET e == <<cur[1][1], cur[1][2], w>> IN
                      [st |-> [st EXCEPT !.chunks[idx + 1] = CS_add(c, e)],
                       ret |-> Some(e), panic |-> ""]
            ELSE IF use = "or_insert_with"
                 THEN [st |-> [st EXCEPT !.chunks[idx + 1] = CS_add(c, made)],
                       ret |-> Some(made), panic |-> ""]
                 ELSE [st |-> st, ret |-> None, panic |-> ""]

entry_then(st, unique_id, use, w) ==
    LET r == entry(st, unique_id) IN
    IF r.panic # "" THEN [st |-> r.st, ret |-> None, panic |-> r.panic]
    ELSE Entry_use(r.st, r.idx, unique_id, use, w)

(*************************** SecondaryIndex *********************************)
\* The projection of the index: the derived key of a record is its value.
projection(element) == element[3]

\* RVec::reduce with groups of one: the slots the traversal compares are those
\* of the previous summary and of the current contents.
reduce_slots(chunk_list, chunks) ==
    1..(IF Len(chunk_list) > Len(chunks) THEN Len(chunk_list) ELSE Len(chunks))

\* Storage::gc: the closure records a slot's previous key as removed when the
\* slot is now vacant or holds another key, and the slot's key as added when it
\* differs from the previous one; the entries of the keys removed and not
\* added leave the map, and the summary follows the current chunks.
gc(st, chunk_list, data) ==
    LET slots == reduce_slots(chunk_list, st.chunks)
        prev_chunk_key(i) == IF i <= Len(chunk_list) THEN chunk_list[i] ELSE None
        now(i) == IF i <= Len(st.chunks) THEN Some(st.chunks[i].chunk_key) ELSE None
        removed == {prev_chunk_key(i)[1] :
                       i \in {j \in slots : prev_chunk_key(j) # None
                                            /\ now(j) # prev_chunk_key(j)}}
        added == {now(i)[1] :
                     i \in {j \in slots : now(j) # None /\ now(j) # prev_chunk_key(j)}}
        gone == removed \ added
    IN [chunk_list |-> [i \in 1..Len(st.chunks) |-> now(i)],
        data |-> [k \in (DOMAIN data) \ gone |-> data[k]]]

\* The index is built against one Storage; it starts Stale (nothing cached).
SecondaryIndex_new(st) ==
    [parent_id |-> id(st), gc_chunk_list |-> << >>, index |-> EmptyMap, dirty |-> {}]

\* One chunk's part of the index: derived key -> item positions.
project_chunk(c) ==
    [k \in {projection(c.data[i]) : i \in 1..Len(c.data)} |->
        {p \in 0..(Len(c.data) - 1) : projection(c.data[p + 1]) = k}]

\* The dirty marks one mutation leaves for the index: the chunk keys whose
\* records it changed.
marked_dirty(st, st2) ==
    {ck \in ChunkKeys :
        Flatten([i \in 1..Len(st.chunks) |->
            IF st.chunks[i].chunk_key = ck THEN st.chunks[i].data ELSE << >>])
        # Flatten([i \in 1..Len(st2.chunks) |->
            IF st2.chunks[i].chunk_key = ck THEN st2.chunks[i].data ELSE << >>])}

\* Stale -> Synchronized: gc of the chunks that left, then a re-projection of
\* every chunk marked dirty and of every chunk the index holds nothing for,
\* then the dirty set is cleared.
SecondaryIndex_sync(st, s) ==
    IF s.parent_id # id(st) THEN [s |-> s, panic |-> "wrong storage"]
    ELSE LET g == gc(st, s.gc_chunk_list, s.index)
             present == {st.chunks[i].chunk_key : i \in 1..Len(st.chunks)}
             chunk_of(ck) ==
                 st.chunks[CHOOSE i \in 1..Len(st.chunks) : st.chunks[i].chunk_key = ck]
         IN [s |-> [s EXCEPT !.gc_chunk_list = g.chunk_list,
                             !.dirty = {},
                             !.index = [ck \in present |->
                                 IF ck \in s.dirty \/ ck \notin DOMAIN g.data
                                 THEN project_chunk(chunk_of(ck))
                                 ELSE g.data[ck]]],
             panic |-> ""]

\* The item positions of matching(index, key) over an inner query in one
\* chunk: the inner query's positions that the index lists under the key.
matching_item_idxs(c, s, inner, key) ==
    LET listed == IF c.chunk_key \in DOMAIN s.index
                     /\ key \in DOMAIN s.index[c.chunk_key]
                  THEN s.index[c.chunk_key][key] ELSE {}
    IN Ascending({p \in Range(CS_item_idxs(c, inner)) : p \in listed})

\* Storage::query with a matching query: the chunk positions are the inner
\* query's; self.chunks[idx] panics out of bounds.
RECURSIVE matching_loop(_, _, _, _, _, _)
matching_loop(st, s, idxs, inner, key, seen) ==
    IF idxs = << >> THEN [s |-> s, ret |-> seen, panic |-> ""]
    ELSE IF Head(idxs) >= Len(st.chunks)
         THEN [s |-> s, ret |-> seen, panic |-> OutOfBounds]
         ELSE LET c == st.chunks[Head(idxs) + 1]
                  ps == matching_item_idxs(c, s, inner, key)
              IN matching_loop(st, s, Tail(idxs), inner, key,
                               seen \o [i \in 1..Len(ps) |-> c.data[ps[i] + 1]])

matching(st, s, inner, key) ==
    LET y == SecondaryIndex_sync(st, s) IN
    IF y.panic # "" THEN [s |-> y.s, ret |-> << >>, panic |-> y.panic]
    ELSE matching_loop(st, y.s, chunk_idxs(inner, st), inner, key, << >>)

(************************** the state machine *******************************)
\* All records stored in any chunk.
Stored(st) == Range(iter(st))

\* The stored records that carry chunk key ck.
StoredUnder(st, ck) == {e \in Stored(st) : chunk_key(e) = ck}

\* One public call on the Storage: last records the call, its argument and what
\* it returned; a call that panics aborts the program (panic stays set).
Call(op, arg, r) ==
    /\ panic = ""
    /\ storage' = r.st
    /\ panic' = r.panic
    /\ last' = [op |-> op, arg |-> arg, ret |-> r.ret]
    /\ UNCHANGED <<ID_COUNTER, instances, secondary, gc_chunk_list, gc_data,
                   threads>>

\* The records of a bulk load carry one payload value.
BulkElements == {e \in Elements : e[3] = 1}

Groups == SeqsUpTo(BulkElements, MaxGroup)

\* add_chunks is fed groups of at most one record.
GroupLists == SeqsUpTo(SeqsUpTo(BulkElements, 1), MaxList)

\* The threads that each call Storage::new() once.
Threads == 1..NumThreads

\* entry(..).get() writes nothing; the other uses write the value w.
EntryArgs == {<<"get", 0>>} \cup ((EntryUses \ {"get"}) \X Values)

Init ==
    /\ storage = new(0).st
    /\ ID_COUNTER = new(0).counter
    /\ instances = << >>
    /\ panic = ""
    /\ last = [op |-> "new", arg |-> None, ret |-> None]
    /\ nadds = 0
    /\ secondary = SecondaryIndex_new(new(0).st)
    /\ gc_chunk_list = << >>
    /\ gc_data = EmptyMap
    /\ threads = [t \in Threads |-> [pc |-> "spawned", id |-> None, st |-> None]]

Add(element) == Call("add", element, add(storage, element)) /\ UNCHANGED nadds

AddChunk(i) == Call("add_chunk", i, add_chunk(storage, i)) /\ UNCHANGED nadds

AddChunks(ii) == Call("add_chunks", ii, add_chunks(storage, ii)) /\ UNCHANGED nadds

Get(unique_id) == Call("get", unique_id, get(storage, unique_id)) /\ UNCHANGED nadds

EntryCall(unique_id, use, w) ==
    /\ Call("entry", <<unique_id, use, w>>, entry_then(storage, unique_id, use, w))
    /\ UNCHANGED nadds

Iter ==
    /\ Call("iter", None, [st |-> storage, ret |-> iter(storage), panic |-> ""])
    /\ UNCHANGED nadds

Raw ==
    /\ Call("raw", None, [st |-> storage, ret |-> raw(storage), panic |-> ""])
    /\ UNCHANGED nadds

Query(q) == Call("query", q, query(storage, q)) /\ UNCHANGED nadds

Modify(q, w) == Call("modify", <<q, w>>, modify(storage, q, w)) /\ UNCHANGED nadds

Remove(q) == Call("remove", q, remove(storage, q)) /\ UNCHANGED nadds

ChunkKeysCall ==
    /\ Call("chunk_keys", None,
            [st |-> storage, ret |-> chunk_keys(storage), panic |-> ""])
    /\ UNCHANGED nadds

RemoveChunk(ck) ==
    Call("remove_chunk", ck, remove_chunk(storage, ck)) /\ UNCHANGED nadds

Validate == Call("validate", None, validate(storage)) /\ UNCHANGED nadds

Next ==
    \/ \E element \in Elements : Add(element)
    \/ \E i \in Groups : AddChunk(i)
    \/ \E ii \in GroupLists : AddChunks(ii)
    \/ \E unique_id \in Ids : Get(unique_id)
    \/ \E unique_id \in Ids, a \in EntryArgs : EntryCall(unique_id, a[1], a[2])
    \/ Iter
    \/ Raw
    \/ \E q \in Queries : Query(q)
    \/ \E q \in Queries, w \in {0} \cup Values : Modify(q, w)
    \/ \E q \in Queries : Remove(q)
    \/ ChunkKeysCall
    \/ \E ck \in ChunkKeys : RemoveChunk(ck)
    \/ Validate

Spec == Init /\ [][Next]_vars

(*********************** sequences of add calls only ************************)
AddOnly(element) ==
    /\ nadds < MaxAdds
    /\ Call("add", element, add(storage, element))
    /\ nadds' = nadds + 1

NextAdd ==
    \/ \E element \in Elements : AddOnly(element)
    \/ \E unique_id \in Ids : Get(unique_id)
    \/ Iter

SpecAdd == Init /\ [][NextAdd]_vars

(***************** adds, entries and removals: compaction *******************)
\* The calls that queue positions and run the compaction passes that drop
\* chunks: up to MaxAdds adds (of records of one payload value),
\* entry(..).get() and remove.
NextCompaction ==
    \/ \E element \in BulkElements : AddOnly(element)
    \/ \E unique_id \in Ids : EntryCall(unique_id, "get", 0)
    \/ \E q \in Queries : Remove(q)

SpecCompaction == Init /\ [][NextCompaction]_vars

(******************* entries among adds and removals ************************)
\* The uses of an entry handle that write the payload value of BulkElements.
BulkEntryArgs == {a \in EntryArgs : a[2] \in {0} \cup {e[3] : e \in BulkElements}}

\* entry(unique_id) and one use of the handle; or_insert_with counts as an add.
EntryWithin(unique_id, use, w) ==
    /\ use = "or_insert_with" => nadds < MaxAdds
    /\ Call("entry", <<unique_id, use, w>>, entry_then(storage, unique_id, use, w))
    /\ nadds' = nadds + (IF use = "or_insert_with" THEN 1 ELSE 0)

\* Up to MaxAdds adds, entry with every use of the handle, and remove of
\* everything or of one identity.
NextEntry ==
    \/ \E element \in BulkElements : AddOnly(element)
    \/ \E unique_id \in Ids, a \in BulkEntryArgs : EntryWithin(unique_id, a[1], a[2])
    \/ \E q \in {Everything} \cup {Id(i[1], i[2]) : i \in Ids} : Remove(q)

SpecEntry == Init /\ [][NextEntry]_vars

(************* every mutating call: the pending queue between calls *********)
\* add_chunk and add_chunks counted against MaxAdds, one per call.
AddChunkWithin(i) ==
    /\ nadds < MaxAdds
    /\ Call("add_chunk", i, add_chunk(storage, i))
    /\ nadds' = nadds + 1

AddChunksWithin(ii) ==
    /\ nadds < MaxAdds
    /\ Call("add_chunks", ii, add_chunks(storage, ii))
    /\ nadds' = nadds + 1

\* A bulk load of at most one record, and a list of at most one such group.
SmallGroups == SeqsUpTo(BulkElements, 1)

SmallGroupLists == SeqsUpTo(SmallGroups, 1)

\* Queries by what they visit: everything, one chunk, one identity.
PlainQueries ==
    {Everything} \cup {Chunks(<<ck>>) : ck \in ChunkKeys}
                 \cup {Id(i[1], i[2]) : i \in Ids}

\* Every call that takes &mut self, on records of one payload value: up to
\* MaxAdds calls that add records, and entry, modify, remove, remove_chunk
\* and validate.
NextQueue ==
    \/ \E element \in BulkElements : AddOnly(element)
    \/ \E i \in SmallGroups : AddChunkWithin(i)
    \/ \E ii \in SmallGroupLists : AddChunksWithin(ii)
    \/ \E unique_id \in Ids, a \in BulkEntryArgs : EntryWithin(unique_id, a[1], a[2])
    \/ \E e \in BulkElements : Modify(Everything, e[3])
    \/ \E q \in PlainQueries : Remove(q)
    \/ \E ck \in ChunkKeys : RemoveChunk(ck)
    \/ Validate

SpecQueue == Init /\ [][NextQueue]_vars

(******************* gc calls among adds and removals ***********************)
\* The caller of gc owns chunk_list and data: it records data about a chunk
\* that the Storage holds.
DataInsert(ck) ==
    /\ panic = ""
    /\ ck \in Range(chunk_keys(storage))
    /\ ck \notin DOMAIN gc_data
    /\ gc_data' = Put(gc_data, ck, TRUE)
    /\ UNCHANGED <<storage, last, panic, ID_COUNTER, instances, nadds, secondary,
                   gc_chunk_list, threads>>

\* storage.gc(&mut chunk_list, &mut data)
Gc ==
    /\ panic = ""
    /\ gc_chunk_list' = gc(storage, gc_chunk_list, gc_data).chunk_list
    /\ gc_data' = gc(storage, gc_chunk_list, gc_data).data
    /\ last' = [op |-> "gc", arg |-> None, ret |-> None]
    /\ UNCHANGED <<storage, panic, ID_COUNTER, instances, nadds, secondary, threads>>

\* Up to MaxAdds adds, entry(..).get(), remove and remove_chunk, with gc calls
\* and the caller's insertions into data in between.
NextGc ==
    \/ \E element \in BulkElements : AddOnly(element)
    \/ \E unique_id \in Ids : EntryCall(unique_id, "get", 0)
    \/ \E q \in PlainQueries : Remove(q)
    \/ \E ck \in ChunkKeys : RemoveChunk(ck)
    \/ \E ck \in ChunkKeys : DataInsert(ck)
    \/ Gc

SpecGc == Init /\ [][NextGc]_vars

(************************ the instances of a process ************************)
\* storage is the first instance built; instances holds the later ones, in
\* order of construction.
AllInstances == <<storage>> \o instances

NewStorage ==
    /\ Len(instances) < MaxInstances
    /\ instances' = Append(instances, new(ID_COUNTER).st)
    /\ ID_COUNTER' = new(ID_COUNTER).counter
    /\ UNCHANGED <<storage, last, panic, nadds, secondary, gc_chunk_list,
                   gc_data, threads>>

DefaultStorage ==
    /\ Len(instances) < MaxInstances
    /\ instances' = Append(instances, default(ID_COUNTER).st)
    /\ ID_COUNTER' = default(ID_COUNTER).counter
    /\ UNCHANGED <<storage, last, panic, nadds, secondary, gc_chunk_list,
                   gc_data, threads>>

CloneStorage(i) ==
    /\ Len(instances) < MaxInstances
    /\ instances' = Append(instances, clone(AllInstances[i]))
    /\ UNCHANGED <<storage, last, panic, ID_COUNTER, nadds, secondary,
                   gc_chunk_list, gc_data, threads>>

NextInstances ==
    \/ NewStorage
    \/ DefaultStorage
    \/ \E i \in 1..Len(AllInstances) : CloneStorage(i)

SpecInstances == Init /\ [][NextInstances]_vars

(******************** threads that call Storage::new() **********************)
\* The one step of new() on shared state: ID_COUNTER.fetch_add(1, Relaxed).
\* The thread keeps the value returned.
ThreadFetchAdd(t) ==
    /\ threads[t].pc = "spawned"
    /\ threads' = [threads EXCEPT ![t].pc = "fetched",
                                  ![t].id = Some(fetch_add(ID_COUNTER, 1).ret)]
    /\ ID_COUNTER' = fetch_add(ID_COUNTER, 1).counter
    /\ UNCHANGED <<storage, last, panic, instances, nadds, secondary,
                   gc_chunk_list, gc_data>>

\* The rest of new(), local to the thread: the Storage is built around the
\* value and returned.
ThreadReturn(t) ==
    /\ threads[t].pc = "fetched"
    /\ threads' = [threads EXCEPT
                      ![t].pc = "done",
                      ![t].st = Some([id |-> threads[t].id[1], chunks |-> << >>,
                                      dirty |-> << >>, index |-> EmptyMap])]
    /\ UNCHANGED <<storage, last, panic, ID_COUNTER, instances, nadds, secondary,
                   gc_chunk_list, gc_data>>

NextThreads ==
    \/ \E t \in Threads : ThreadFetchAdd(t)
    \/ \E t \in Threads : ThreadReturn(t)

SpecThreads == Init /\ [][NextThreads]_vars

(**************** mutations interleaved with matching queries ***************)
\* A mutation of the Storage the index was built against; the index receives
\* the dirty marks of the chunks it changed.  Of the call, last keeps the name.
IndexedCall(op, arg, r) ==
    /\ panic = ""
    /\ storage' = r.st
    /\ panic' = r.panic
    /\ last' = [op |-> op, arg |-> None, ret |-> None]
    /\ secondary' = [secondary EXCEPT !.dirty = @ \cup marked_dirty(storage, r.st)]
    /\ UNCHANGED <<ID_COUNTER, instances, nadds, gc_chunk_list, gc_data,
                   threads>>

IndexedAdd(element) == IndexedCall("add", element, add(storage, element))

IndexedEntryGetMut(unique_id, w) ==
    IndexedCall("entry", <<unique_id, "get_mut", w>>,
                entry_then(storage, unique_id, "get_mut", w))

IndexedModify(q, w) == IndexedCall("modify", <<q, w>>, modify(storage, q, w))

IndexedRemove(q) == IndexedCall("remove", q, remove(storage, q))

IndexedRemoveChunk(ck) == IndexedCall("remove_chunk", ck, remove_chunk(storage, ck))

\* query(inner.matching(&mut index, key)): the index synchronizes, the Storage
\* is only read.
Matching(inner, key) ==
    LET r == matching(storage, secondary, inner, key) IN
    /\ panic = ""
    /\ secondary' = r.s
    /\ panic' = r.panic
    /\ last' = [op |-> "matching", arg |-> <<inner, key>>, ret |-> r.ret]
    /\ UNCHANGED <<storage, ID_COUNTER, instances, nadds, gc_chunk_list, gc_data,
                   threads>>

NextIndexed ==
    \/ \E element \in Elements : IndexedAdd(element)
    \/ \E unique_id \in Ids, w \in Values : IndexedEntryGetMut(unique_id, w)
    \/ \E q \in Queries, w \in Values : IndexedModify(q, w)
    \/ \E q \in Queries : IndexedRemove(q)
    \/ \E ck \in ChunkKeys : IndexedRemoveChunk(ck)
    \/ \E inner \in BaseQueries, key \in Values : Matching(inner, key)

SpecIndexed == Init /\ [][NextIndexed]_vars

(****************************** the claims **********************************)
\* How many times e occurs in a sequence.
Count(seq, e) == Cardinality({i \in 1..Len(seq) : seq[i] = e})

\* Two sequences hold the same multiset.
SameBag(a, b) ==
    /\ Len(a) = Len(b)
    /\ \A e \in Range(a) \cup Range(b) : Count(a, e) = Count(b, e)

SameIdentity(a, b) == chunk_key(a) = chunk_key(b) /\ item_key(a) = item_key(b)

\* The records a query denotes, read off the stored records alone.
Denotes(q, e) ==
    /\ q.kind = "Chunks" => chunk_key(e) \in Range(q.keys)
    /\ q.kind = "Id" => chunk_key(e) = q.id[1] /\ item_key(e) = q.id[2]
    /\ q.v # 0 => e[3] = q.v

\* The records of the chunks whose own key is ck, chunk after chunk.
GroupOf(st, ck) ==
    Flatten([i \in 1..Len(st.chunks) |->
                IF st.chunks[i].chunk_key = ck THEN st.chunks[i].data ELSE << >>])

\* The records the last call removed.
RemovedByLast ==
    IF last.op = "remove" THEN Range(last.ret)
    ELSE IF last.op = "remove_chunk" /\ last.ret # None THEN Range(last.ret[1])
    ELSE {}

\* C1: after any sequence of public operations with valid arguments (no call
\* has aborted), validate() does not abort: every chunk is indexed under its
\* own key at its position, every index entry points to an existing chunk of
\* that key, and after validate's compaction no chunk is empty.
C1_ValidateNeverAborts ==
    panic = "" => validate(storage).panic = ""

\* C2: in every reachable state and for every identity, get returns the
\* stored record of that chunk key and item key, returns absence when there
\* is none, never aborts and changes nothing.
C2_GetFindsStored ==
    panic = "" =>
        \A unique_id \in Ids :
            LET r == get(storage, unique_id)
                m == {e \in Stored(storage) : SameIdentity(e, unique_id)}
            IN /\ r.panic = ""
               /\ r.st = storage
               /\ m = {} => r.ret = None
               /\ m # {} => r.ret # None /\ r.ret[1] \in m

\* C3: over sequences of add calls, at most one record is stored per (chunk
\* key, item key); an add of a stored pair replaces the record, so get of the
\* pair returns the later record and the record count does not grow (and an
\* add of a new pair grows it by one).
C3_AddKeepsPairsUnique ==
    [][last'.op = "add" =>
         LET e == last'.arg
             before == iter(storage)
             after == iter(storage')
             had == \E x \in Range(before) : SameIdentity(x, e)
         IN /\ panic' = ""
            /\ \A i, j \in 1..Len(after) : SameIdentity(after[i], after[j]) => i = j
            /\ get(storage', e).ret = Some(e)
            /\ Len(after) = Len(before) + (IF had THEN 0 ELSE 1)
            /\ \A x \in Range(before) :
                  ~SameIdentity(x, e) => get(storage', x).ret = Some(x)]_vars

\* C3 witness: two adds were made and one record is stored: the second add
\* replaced the record of the first, and get returns the later one.
C3_Witness ==
    /\ last.op = "add"
    /\ nadds = 2
    /\ Len(iter(storage)) = 1
    /\ get(storage, last.arg).ret = Some(last.arg)

\* C4: remove_chunk(k) returns exactly the records stored under k (absence
\* when there are none) and leaves every record of every other chunk stored
\* and retrievable by get, query and add under its own identity.
C4_RemoveChunkFrame ==
    [][last'.op = "remove_chunk" =>
         LET k == last'.arg
             under == StoredUnder(storage, k)
             others == Stored(storage) \ under
         IN /\ panic' = ""
            /\ under = {} => last'.ret = None
            /\ under # {} =>
                  /\ last'.ret # None
                  /\ Range(last'.ret[1]) = under
                  /\ Len(last'.ret[1]) = Cardinality(under)
            /\ \A e \in others :
                  /\ get(storage', e).panic = ""
                  /\ get(storage', e).ret = Some(e)
                  /\ query(storage', Id(e[1], e[2])).panic = ""
                  /\ query(storage', Id(e[1], e[2])).ret = <<e>>
                  /\ add(storage', e).panic = ""
                  /\ SameBag(iter(add(storage', e).st), iter(storage'))]_vars

\* C5: once a removal (remove or remove_chunk) has taken every record of a
\* chunk, after any one further public operation validate() succeeds and the
\* chunk's key is not listed by chunk_keys() (unless that operation is an
\* insertion or an entry, which may build a chunk of that key anew).  The
\* further operation is given valid arguments.
C5_EmptiedChunkIsGone ==
    [][(panic = "" /\ panic' # "chunk key mismatch") =>
         \A k \in {ck \in ChunkKeys :
                      /\ \E e \in RemovedByLast : chunk_key(e) = ck
                      /\ StoredUnder(storage, ck) = {}} :
            /\ panic' = ""
            /\ validate(storage').panic = ""
            /\ last'.op \notin {"add", "add_chunk", "add_chunks", "entry"} =>
                  k \notin Range(chunk_keys(storage'))]_vars

\* C6: any two instances of the process (built by new, default or clone) carry
\* different ids, and ids grow in the order of construction.
C6_IdsDistinctAndIncreasing ==
    \A i, j \in 1..Len(AllInstances) :
        i < j => id(AllInstances[i]) < id(AllInstances[j])

\* C7: between public operations chunk_keys() lists exactly the keys of the
\* chunks that hold at least one record, each once; no key of a chunk with
\* zero records is listed.
C7_ChunkKeysAreNonEmptyChunks ==
    panic = "" =>
        LET ks == chunk_keys(storage) IN
        /\ \A i, j \in 1..Len(ks) : ks[i] = ks[j] => i = j
        /\ Range(ks) = {ck \in ChunkKeys : StoredUnder(storage, ck) # {}}

\* C8: add_chunks of raw() (or dissolve()) into a fresh Storage yields a
\* Storage with an equal multiset of records under the same chunk keys, on
\* which get returns what it returns on the original, for every identity.
C8_RawRoundTrip ==
    panic = "" =>
        \A groups \in {raw(storage), dissolve(storage)} :
            LET r == add_chunks(new(ID_COUNTER).st, groups) IN
            /\ r.panic = ""
            /\ SameBag(iter(r.st), iter(storage))
            /\ \A ck \in ChunkKeys : SameBag(GroupOf(r.st, ck), GroupOf(storage, ck))
            /\ \A unique_id \in Ids :
                  /\ get(storage, unique_id).panic = ""
                  /\ get(r.st, unique_id).panic = ""
                  /\ get(r.st, unique_id).ret = get(storage, unique_id).ret

\* C9: query(Everything) visits every stored record exactly once, the same
\* records as iter(); query(Chunks(list)) visits exactly the records of the
\* listed chunk keys, as if the unknown keys of the list were absent.
C9_QueryVisitsExactly ==
    panic = "" =>
        /\ query(storage, Everything).panic = ""
        /\ SameBag(query(storage, Everything).ret, iter(storage))
        /\ \A list \in SeqsUpTo(ChunkKeys, MaxList) :
              LET r == query(storage, Chunks(list))
                  known == Ascending({i \in 1..Len(list) :
                                         StoredUnder(storage, list[i]) # {}})
                  narrowed == [i \in 1..Len(known) |-> list[known[i]]]
              IN /\ r.panic = ""
                 /\ Range(r.ret) = {e \in Stored(storage) : chunk_key(e) \in Range(list)}
                 /\ \A e \in Range(r.ret) : Count(r.ret, e) = Count(iter(storage), e)
                 /\ query(storage, Chunks(narrowed)).panic = ""
                 /\ SameBag(query(storage, Chunks(narrowed)).ret, r.ret)

\* C10: remove(query, f) removes exactly the records the query selects and
\* hands each to f once; every other record stays stored, unchanged and
\* returned by get; when it returns, no chunk it emptied remains.
C10_RemoveExactlySelected ==
    [][last'.op = "remove" =>
         LET q == last'.arg
             sel == {e \in Stored(storage) : Denotes(q, e)}
         IN /\ panic' = ""
            /\ Range(last'.ret) = sel
            /\ \A e \in sel : Count(last'.ret, e) = Count(iter(storage), e)
            /\ Stored(storage') = Stored(storage) \ sel
            /\ \A e \in Stored(storage) \ sel :
                  /\ Count(iter(storage'), e) = Count(iter(storage), e)
                  /\ get(storage', e).panic = ""
                  /\ get(storage', e).ret = Some(e)
            /\ \A i \in 1..Len(storage'.chunks) :
                  CS_is_empty(storage'.chunks[i]) =>
                      \A e \in sel : chunk_key(e) # storage'.chunks[i].chunk_key]_vars

\* The identities (chunk key, item key) of the stored records.
Identities(st) == {<<chunk_key(e), item_key(e)>> : e \in Stored(st)}

\* C11: modify(query, f) invokes f exactly once on each record the query
\* selects (for a filter: the records of the inner query's chunks that satisfy
\* the predicate) and leaves the records not selected, the set of stored
\* identities and the chunk-key index unchanged; it does not abort.
C11_ModifyFrame ==
    [][last'.op = "modify" =>
         LET q == last'.arg[1]
             sel == {e \in Stored(storage) : Denotes(q, e)}
         IN /\ panic' = ""
            /\ Range(last'.ret) = sel
            /\ \A e \in sel : Count(last'.ret, e) = Count(iter(storage), e)
            /\ \A e \in Stored(storage) \ sel :
                  Count(iter(storage'), e) = Count(iter(storage), e)
            /\ Identities(storage') = Identities(storage)
            /\ storage'.index = storage.index]_vars

\* Whether all records of a group carry one chunk key.
OneChunkKey(group) ==
    \A i, j \in 1..Len(group) : chunk_key(group[i]) = chunk_key(group[j])

\* C12: add_chunk(group) aborts when the records of the group do not all share
\* one chunk key; when they do it returns with every record of the group
\* stored in the chunk of that key; an empty group changes no record and
\* creates no chunk.
C12_AddChunkOneKey ==
    [][last'.op = "add_chunk" =>
         LET group == last'.arg IN
         /\ ~OneChunkKey(group) => panic' # ""
         /\ (OneChunkKey(group) /\ group # << >>) =>
               /\ panic' = ""
               /\ \A e \in Range(group) :
                     e \in Range(GroupOf(storage', chunk_key(Head(group))))
         /\ group = << >> =>
               /\ panic' = ""
               /\ SameBag(iter(storage'), iter(storage))
               /\ Len(storage'.chunks) <= Len(storage.chunks)]_vars

\* Whether two different groups of the list hold records of one chunk key.
GroupsShareKey(groups) ==
    \E i, j \in 1..Len(groups) :
        /\ i # j
        /\ \E a \in Range(groups[i]), b \in Range(groups[j]) :
              chunk_key(a) = chunk_key(b)

\* C13: add_chunks(groups) panics when any two of the groups share a common
\* chunk key.
C13_AddChunksSharedKeyPanics ==
    [][(last'.op = "add_chunks" /\ GroupsShareKey(last'.arg)) => panic' # ""]_vars

\* C14: in every state and for every identity, entry(identity).get() returns
\* what get(identity) returns on the state before the call (and aborts only
\* where get does), and the stored records are the same afterwards.
C14_EntryGetIsGet ==
    [][(last'.op = "entry" /\ last'.arg[2] = "get") =>
         LET g == get(storage, last'.arg[1]) IN
         /\ panic' = g.panic
         /\ panic' = "" => last'.ret = g.ret
         /\ SameBag(iter(storage'), iter(storage))]_vars

\* C15: entry(identity).or_insert_with(f): when no record of that identity is
\* stored (its chunk key may be unseen) the record f builds is inserted and a
\* following get(identity) returns it; when one is stored it is kept as it is
\* (f's record does not appear).  In both cases the call returns and
\* validate() succeeds afterwards.
C15_OrInsertWith ==
    [][(last'.op = "entry" /\ last'.arg[2] = "or_insert_with") =>
         LET unique_id == last'.arg[1]
             made == <<chunk_key(unique_id), item_key(unique_id), last'.arg[3]>>
             had == {e \in Stored(storage) : SameIdentity(e, unique_id)}
         IN /\ panic' = ""
            /\ had = {} =>
                  /\ get(storage', unique_id).ret = Some(made)
                  /\ SameBag(iter(storage'), iter(storage) \o <<made>>)
            /\ had # {} =>
                  /\ get(storage', unique_id).ret # None
                  /\ get(storage', unique_id).ret[1] \in had
                  /\ SameBag(iter(storage'), iter(storage))
            /\ validate(storage').panic = ""]_vars

\* C16: for any interleaving of mutations (add, entry get_mut, modify, remove,
\* remove_chunk) and matching queries on one Storage, a matching(index, key)
\* query over any inner query returns exactly the stored records the inner
\* query denotes whose projected key is key, however many mutations came since
\* the index last synchronized.
C16_MatchingIsExact ==
    panic = "" =>
        \A inner \in BaseQueries, key \in Values :
            LET r == matching(storage, secondary, inner, key)
                want == {e \in Stored(storage) :
                            Denotes(inner, e) /\ projection(e) = key}
            IN /\ r.panic = ""
               /\ Range(r.ret) = want
               /\ \A e \in want : Count(r.ret, e) = Count(iter(storage), e)

\* C17: modify(query, f) and remove(query, f) both append the position of
\* every chunk they visit to the dirty queue before they process that chunk:
\* when modify returns the queue holds the positions it visited, and the queue
\* remove hands to its closing compaction is the old queue followed by the
\* positions visited (up to and including the one whose processing aborted).
C17_ModifyAndRemoveMarkDirty ==
    [][/\ (last'.op = "modify" /\ clean(storage).panic = "") =>
             LET visited == chunk_idxs(last'.arg[1], clean(storage).st) IN
             \A i \in 1..Len(visited) : visited[i] \in Range(storage'.dirty)
       /\ last'.op = "remove" =>
             LET visited == chunk_idxs(last'.arg, storage)
                 r == remove_loop(storage, visited, last'.arg, << >>)
                 marked == SubSeq(r.st.dirty, Len(storage.dirty) + 1, Len(r.st.dirty))
             IN /\ SubSeq(r.st.dirty, 1, Len(storage.dirty)) = storage.dirty
                /\ r.panic = "" => marked = visited
                /\ r.panic # "" =>
                      /\ marked # << >>
                      /\ marked = SubSeq(visited, 1, Len(marked))
                      /\ marked[Len(marked)] >= Len(storage.chunks)]_vars

NoDuplicates(seq) == \A i, j \in 1..Len(seq) : seq[i] = seq[j] => i = j

\* The queue a call of remove hands to its closing compaction.
QueueAtCompaction(st, q) == remove_loop(st, chunk_idxs(q, st), q, << >>)

\* C18: a chunk position is queued at most once between two compaction
\* passes: whenever a compaction starts (at the opening of a call, or at the
\* close of remove once its chunks are processed) the pending queue holds no
\* position twice.
C18_QueuedAtMostOnce ==
    [][/\ panic = "" => NoDuplicates(storage.dirty)
       /\ (last'.op = "remove" /\ QueueAtCompaction(storage, last'.arg).panic = "") =>
             NoDuplicates(QueueAtCompaction(storage, last'.arg).st.dirty)]_vars

\* C19: in every compaction pass reachable through public operations (the
\* opening one of a call, and the closing one of remove, also right after an
\* entry) each queued position is a position of the chunk collection when it
\* is processed: the pass reads no chunk past the end and does not abort.
C19_CompactionStaysInBounds ==
    [][/\ panic = "" => clean(storage).panic = ""
       /\ (last'.op = "remove" /\ QueueAtCompaction(storage, last'.arg).panic = "") =>
             clean(QueueAtCompaction(storage, last'.arg).st).panic = ""]_vars

\* The chunks of a collection that hold at least one record, in order.
NonEmptyChunks(chunks) == SelectSeq(chunks, LAMBDA c : ~CS_is_empty(c))

\* What one compaction pass over the Storage st does, up to its end or to the
\* point where it aborts: the stored records and the non-empty chunks are the
\* same before and after, and a chunk now at another position than before is
\* indexed at that position.
CompactionKeeps(st) ==
    LET c == clean(st) IN
    /\ SameBag(iter(c.st), iter(st))
    /\ SameBag(NonEmptyChunks(c.st.chunks), NonEmptyChunks(st.chunks))
    /\ \A p \in 1..Len(c.st.chunks) :
          c.st.chunks[p] # st.chunks[p] =>
              internal_idx_of(c.st, c.st.chunks[p].chunk_key) = Some(p - 1)

\* Whether the pass over st removes a chunk and moves another into its slot.
CompactionMoves(st) ==
    LET c == clean(st) IN
    /\ c.panic = ""
    /\ Len(c.st.chunks) < Len(st.chunks)
    /\ \E p \in 1..Len(c.st.chunks) : c.st.chunks[p] # st.chunks[p]

\* C20: a compaction pass (the opening one of a call, or the closing one of
\* remove) removes only chunks that hold zero records: the multiset of stored
\* records is the same before and after, every non-empty chunk survives, and
\* each chunk moved into a vacated slot is indexed under its own key at its
\* new position.
C20_CompactionRemovesOnlyEmpty ==
    panic = "" =>
        /\ CompactionKeeps(storage)
        /\ \A q \in Queries :
              QueueAtCompaction(storage, q).panic = "" =>
                  CompactionKeeps(QueueAtCompaction(storage, q).st)

\* C20 witness: a remove is possible whose closing compaction drops an emptied
\* chunk and moves a chunk that holds records into its slot.
C20_Witness ==
    /\ panic = ""
    /\ \E q \in Queries :
          /\ QueueAtCompaction(storage, q).panic = ""
          /\ CompactionMoves(QueueAtCompaction(storage, q).st)
          /\ iter(clean(QueueAtCompaction(storage, q).st).st) # << >>

\* The positions (1-based) of the chunks whose own key is ck.
ChunksOfKey(st, ck) == {i \in 1..Len(st.chunks) : st.chunks[i].chunk_key = ck}

\* Whether the compaction pass over st, where the chunk that the index lists
\* for ck is empty, removes that chunk (one chunk of that key fewer) and
\* leaves no index entry for ck.
PassDropsEmptyChunk(st, ck) ==
    LET d == clean(st).st IN
    /\ internal_idx_of(d, ck) = None
    /\ Cardinality(ChunksOfKey(d, ck)) < Cardinality(ChunksOfKey(st, ck))

\* The state right after an entry call that left the chunk it resolved empty:
\* the key was unseen and nothing was inserted through the handle.
EntryLeftEmptyChunk ==
    /\ last.op = "entry"
    /\ panic = ""
    /\ internal_idx_of(storage, chunk_key(last.arg[1])) # None
    /\ CS_is_empty(storage.chunks[internal_idx_of(storage, chunk_key(last.arg[1]))[1] + 1])

\* C21: entry(identity) compacts first and then queues the position of the
\* chunk it resolves, whatever is done with the handle; for a chunk key
\* unseen after the compaction an empty chunk is created at the end and
\* indexed, and when nothing is inserted through the handle the next
\* compaction pass (the opening one of a call, or the closing one of a remove)
\* removes that chunk and drops its key from the index.
C21_EntryQueuesResolvedChunk ==
    /\ [][last'.op = "entry" =>
            LET ck == chunk_key(last'.arg[1])
                c == clean(storage).st
                unseen == internal_idx_of(c, ck) = None
                inserted == last'.arg[2] = "or_insert_with"
            IN /\ clean(storage).panic = ""
               /\ Len(storage'.chunks) = Len(c.chunks) + (IF unseen THEN 1 ELSE 0)
               /\ \A i \in 1..Len(c.chunks) :
                     storage'.chunks[i].chunk_key = c.chunks[i].chunk_key
               /\ internal_idx_of(storage', ck) # None
               /\ storage'.dirty = <<internal_idx_of(storage', ck)[1]>>
               /\ unseen =>
                     /\ internal_idx_of(storage', ck) = Some(Len(c.chunks))
                     /\ storage'.chunks[Len(c.chunks) + 1].chunk_key = ck
                     /\ ~inserted => CS_is_empty(storage'.chunks[Len(c.chunks) + 1])
               /\ (unseen /\ ~inserted) => EntryLeftEmptyChunk']_vars
    /\ [](EntryLeftEmptyChunk =>
            /\ PassDropsEmptyChunk(storage, chunk_key(last.arg[1]))
            /\ \A q \in Queries :
                  LET r == QueueAtCompaction(storage, q) IN
                  r.panic = "" => PassDropsEmptyChunk(r.st, chunk_key(last.arg[1])))

\* C21 witness: an entry call on an unseen chunk key that inserted nothing has
\* returned; the empty chunk it created is the last one and is queued.
C21_Witness ==
    /\ EntryLeftEmptyChunk
    /\ last.arg[2] # "or_insert_with"
    /\ Len(storage.chunks) > 1
    /\ storage.dirty = <<Len(storage.chunks) - 1>>
    /\ internal_idx_of(storage, chunk_key(last.arg[1])) = Some(Len(storage.chunks) - 1)

\* The calls after whose return the pending queue is claimed to be empty.
QueueDrainingOps ==
    {"add", "add_chunk", "add_chunks", "modify", "remove", "remove_chunk", "validate"}

\* The positions (0-based) of the chunks that hold zero records.
EmptyChunkPositions(st) ==
    {i \in 0..(Len(st.chunks) - 1) : CS_is_empty(st.chunks[i + 1])}

\* C22: in every reachable state each chunk that holds zero records has its
\* position in the pending queue, and the queue is empty whenever add,
\* add_chunk, add_chunks, modify, remove, remove_chunk or validate returns.
C22_EmptyChunksAreQueued ==
    panic = "" =>
       /\ EmptyChunkPositions(storage) \subseteq Range(storage.dirty)
       /\ last.op \in QueueDrainingOps => storage.dirty = << >>

\* C22 witness: between two calls the collection holds a chunk with records
\* and, after it, an empty chunk whose position is the one queued.
C22_Witness ==
    /\ panic = ""
    /\ EmptyChunkPositions(storage) = {Len(storage.chunks) - 1}
    /\ storage.dirty = <<Len(storage.chunks) - 1>>
    /\ iter(storage) # << >>

\* The chunk keys the summary of the previous gc call lists.
KeysAtPreviousCall ==
    {gc_chunk_list[i][1] : i \in {j \in 1..Len(gc_chunk_list) : gc_chunk_list[j] # None}}

\* The chunk keys of the chunks the Storage holds.
KeysNow(st) == Range(chunk_keys(st))

\* C23: after gc(chunk_list, data), with chunk_list maintained only by the
\* successive gc calls on this Storage, data holds no entry for a chunk key
\* that was present at the previous call and is absent now, and every entry of
\* data whose chunk key is present now (moved, or removed and re-added, since
\* the previous call included) is kept.
C23_GcDropsAbsentKeepsPresent ==
    [][last'.op = "gc" =>
         /\ \A ck \in KeysAtPreviousCall \ KeysNow(storage) : ck \notin DOMAIN gc_data'
         /\ \A ck \in (DOMAIN gc_data) \cap KeysNow(storage) :
               ck \in DOMAIN gc_data' /\ gc_data'[ck] = gc_data[ck]]_vars

\* The Storage values the threads have built so far.
BuiltByThreads == {t \in Threads : threads[t].st # None}

\* C24: when several threads call Storage::new() concurrently, in any
\* interleaving, no two calls observe the same counter value and every
\* Storage built gets a different id (different from the id of the Storage
\* built before the threads started, too).
C24_ConcurrentNewDistinctIds ==
    /\ \A t1, t2 \in Threads :
          (t1 # t2 /\ threads[t1].id # None /\ threads[t2].id # None) =>
             threads[t1].id # threads[t2].id
    /\ \A t1, t2 \in BuiltByThreads :
          t1 # t2 => id(threads[t1].st[1]) # id(threads[t2].st[1])
    /\ \A t \in BuiltByThreads : id(threads[t].st[1]) # id(storage)

\* C24 witness: every thread has returned from new(), and the ids do not
\* follow the order of the threads: a later thread reached the counter first.
C24_Witness ==
    /\ BuiltByThreads = Threads
    /\ NumThreads > 1
    /\ \E t1, t2 \in Threads : t1 < t2 /\ id(threads[t1].st[1]) > id(threads[t2].st[1])

====
